---- MODULE Spec2Model ----
(***************************************************************************)
(* Event-to-deployment pipeline of dockge-with-deploy: webhook ingestion   *)
(* (WebhookHandler), provider adapters, the build queue and its worker     *)
(* (BuildEngine), modelled at the granularity of the awaits of the code.   *)
(* Every action is the code that runs between two awaits of one handler.   *)
(***************************************************************************)
EXTENDS Integers, Sequences, FiniteSets, TLC

VARIABLES
    webhook_events, \* table webhook_events: sequence of rows, row i has id i
    deployments,    \* table deployments: sequence of rows, row i has id i
    http,           \* webhook requests received, with their handler position
    manual,         \* triggerManualBuild calls, with their position
    emitted,        \* event ids broadcast as "buildRequested" to the clients
    calls,          \* queueBuild calls, in call order (index = call number)
    buildQueue,     \* BuildEngine.buildQueue: call numbers, head first
    isProcessing,   \* BuildEngine.isProcessing
    runs,           \* processQueue activations that took a build, in start order
    loading,        \* loadPendingBuilds is waiting for its query
    fileAccess,     \* last GitOperations file call: root, fs operations, result
    signatureCheck, \* last GitHub webhook: raw body, signature, verified flag
    issued, \* build ids handed out: the clock and the ids in order
    encryptionKey, \* utils/crypto: the module's encryptionKey, <<>> while undefined
    vault, \* environment key, first key, texts sealed so far, the stored repository row
    configs, \* table build_configs as saveBuildConfig fills it, and its calls
    sync, \* GitHandler's clone, pull and checkout, alone
    commandRun, \* processBuild from the pre-build commands on, command by command, alone
    tokenCheck, \* the last GitLab or generic webhook and its verification, alone
    buildFiles  \* the files buildDocker and deployApplication name, alone

\* The state of the webhook handler and the build engine.
engineVars == <<webhook_events, deployments, http, manual, emitted, calls,
                buildQueue, isProcessing, runs, loading>>

\* The state of the components specified on their own.
sideVars == <<fileAccess, signatureCheck,
             issued,
             encryptionKey,
             vault,
             configs,
             sync,
             commandRun,
             tokenCheck,
             buildFiles>>

vars == <<engineVars, sideVars>>

----------------------------------------------------------------------------
(* Bounds of the model *)

MaxRequests == 1   \* webhook requests and manual triggers received
MaxCalls == 2      \* queueBuild calls made for them
MaxStored == 1     \* events left in the table by the previous process
MaxBuildId == 1    \* values the build id generators can return
MaxIssued == 3     \* build ids generated in the specification of the ids
MaxClock == 3      \* milliseconds the clock advances in that specification
MaxKey == 2        \* values crypto.randomBytes(32) can return for a key
MaxIv == 1         \* values crypto.randomBytes(16) can return for an iv
MaxSealed == 2     \* texts sealed in the specification of the vault
MaxSaves == 3      \* saveBuildConfig calls in the specification of the table
MaxCommit == 2     \* commits the remote branch comes to hold
MaxLines == 2      \* lines of preBuildCommands and of postBuildCommands
MaxConcurrent == 2 \* webhook requests in the specification of the handler alone

----------------------------------------------------------------------------
(* Status constants (common/util-common, imported by build-engine.ts) *)

BUILD_REQUESTED == "BUILD_REQUESTED"
BUILD_QUEUED == "BUILD_QUEUED"
BUILD_IN_PROGRESS == "BUILD_IN_PROGRESS"
BUILD_COMPLETED == "BUILD_COMPLETED"
BUILD_FAILED == "BUILD_FAILED"
DEPLOYMENT_IN_PROGRESS == "DEPLOYMENT_IN_PROGRESS"
DEPLOYMENT_SUCCEEDED == "DEPLOYMENT_SUCCEEDED"
DEPLOYMENT_FAILED == "DEPLOYMENT_FAILED"

\* The status of a deployment whose stack was put back on the previous
\* successful deployment (the status column of the deployments table).
DEPLOYMENT_ROLLED_BACK == "rolled_back"

ZeroSha == "0000000000000000000000000000000000000000"

----------------------------------------------------------------------------
(* The stored repositories and build configurations *)

git_repositories ==
    [i \in {1, 2} |->
        IF i = 1
        THEN [provider |-> "gitlab", branch |-> "main",
              webhookSecret |-> "s3cret", stackId |-> "s1"]
        ELSE [provider |-> "generic", branch |-> "main",
              webhookSecret |-> "", stackId |-> "s2"]]

build_configs ==
    [i \in {1, 2} |->
        IF i = 1
        THEN [buildType |-> "docker-build", preBuildCommands |-> 1,
              postBuildCommands |-> 1, rollbackOnFailure |-> TRUE]
        ELSE [buildType |-> "compose-only", preBuildCommands |-> 0,
              postBuildCommands |-> 0, rollbackOnFailure |-> TRUE]]

StackNames == {"s1", "s3"}

----------------------------------------------------------------------------
(* Webhook requests: route, repository id of the URL, headers, payload.     *)
(* A ref is kept as its prefix kind and the rest of the string.             *)

NoRef == [kind |-> "none", name |-> ""]
RefHead(n) == [kind |-> "heads", name |-> n]
RefTag(n) == [kind |-> "tags", name |-> n]

Hmac(body, secret) == <<"sha256=", secret, body>>

Req(route, repoId, event, token, ref, after) ==
    [route |-> route, repoId |-> repoId,
     headers |-> [event |-> event, token |-> token, sig |-> <<>>,
                  uuids |-> FALSE],
     payload |-> [ref |-> ref, after |-> after]]

Requests ==
    { Req("gitlab", 1, "Push Hook", "s3cret", RefHead("main"), "abc123"),
      Req("gitlab", 1, "Push Hook", "s3cret", RefHead("dev"), "def456"),
      Req("gitlab", 1, "Push Hook", "wrong", RefHead("main"), "abc123"),
      Req("gitlab", 1, "Tag Push Hook", "s3cret", RefTag("v1"), "abc123"),
      Req("generic", 1, "", "wrong", RefHead("main"), "abc123"),
      Req("generic", 2, "", "", RefHead("main"), "abc123"),
      Req("generic", 2, "", "", RefHead("main"), "def456"),
      Req("generic", 3, "", "wrong", RefHead("dev"), "def456") }

----------------------------------------------------------------------------
(* Provider adapters: parseWebhookPayload.  An absent (undefined) field of  *)
(* the metadata is the empty string, which the handler tests as falsy.      *)

Metadata(eventType, verified, branch, tag, commit) ==
    [eventType |-> eventType, verified |-> verified, branch |-> branch,
     tag |-> tag, commit |-> commit]

OrUnknown(s) == IF s = "" THEN "unknown" ELSE s

CommitOf(payload) ==
    IF payload.after # "" /\ payload.after # ZeroSha THEN payload.after ELSE ""

\* A GitLab adapter that reports the tag of a tag push as its branch.
GitLabParseTagAsBranch(payload, headers, secret) ==
    LET eventType == OrUnknown(headers.event)
        verified == IF secret # "" THEN headers.token = secret ELSE FALSE
    IN  Metadata(eventType, verified, payload.ref.name, "", CommitOf(payload))

GitLabParse(payload, headers, secret) ==
    LET eventType == OrUnknown(headers.event)
        verified == IF secret # "" THEN headers.token = secret ELSE FALSE
    IN  IF eventType = "Push Hook"
        THEN Metadata(eventType, verified,
                      IF payload.ref.kind = "heads" THEN payload.ref.name ELSE "",
                      "", CommitOf(payload))
        ELSE IF eventType = "Tag Push Hook"
        THEN Metadata(eventType, verified, "",
                      IF payload.ref.kind = "tags" THEN payload.ref.name ELSE "",
                      "")
        ELSE Metadata(eventType, verified, "", "", "")

\* JSON texts of push payloads: without whitespace, as JSON.stringify
\* writes them, and with a space after every colon and comma.
CompactJson ==
    { <<"{\"ref\":\"refs/heads/main\",\"after\":\"abc123\"}",
        [ref |-> RefHead("main"), after |-> "abc123"]>>,
      <<"{\"ref\":\"refs/heads/main\",\"after\":\"def456\"}",
        [ref |-> RefHead("main"), after |-> "def456"]>>,
      <<"{\"ref\":\"refs/heads/dev\",\"after\":\"def456\"}",
        [ref |-> RefHead("dev"), after |-> "def456"]>> }

SpacedJson ==
    { <<"{\"ref\": \"refs/heads/main\", \"after\": \"abc123\"}",
        [ref |-> RefHead("main"), after |-> "abc123"]>>,
      <<"{\"ref\": \"refs/heads/main\", \"after\": \"def456\"}",
        [ref |-> RefHead("main"), after |-> "def456"]>>,
      <<"{\"ref\": \"refs/heads/dev\", \"after\": \"def456\"}",
        [ref |-> RefHead("dev"), after |-> "def456"]>> }

RawBodies == {e[1] : e \in CompactJson \cup SpacedJson}

JSONparse(text) == (CHOOSE e \in CompactJson \cup SpacedJson : e[1] = text)[2]

JSONstringify(value) == (CHOOSE e \in CompactJson : e[2] = value)[1]

\* A request body that reaches the handler as a string is [text |-> raw];
\* a string has none of the properties of a payload object.
IsString(payload) == "text" \in DOMAIN payload

PropertiesOf(payload) ==
    IF IsString(payload) THEN [ref |-> NoRef, after |-> ""] ELSE payload

GitHubVerifySignature(payload, signature, secret) ==
    IF signature = <<>> \/ signature[1] # "sha256="
    THEN FALSE
    ELSE LET payloadString == IF IsString(payload) THEN payload.text
                              ELSE JSONstringify(payload)
         IN Hmac(payloadString, secret) = signature

GitHubParse(payload, headers, secret) ==
    LET eventType == OrUnknown(headers.event)
        verified == IF secret # ""
                    THEN GitHubVerifySignature(payload, headers.sig, secret)
                    ELSE FALSE
        p == PropertiesOf(payload)
    IN  IF eventType = "push"
        THEN Metadata(eventType, verified,
                      IF p.ref.kind = "heads" THEN p.ref.name ELSE "",
                      "", CommitOf(p))
        ELSE Metadata(eventType, verified, "", "", "")

BitbucketParse(payload, headers, secret) ==
    LET eventType == OrUnknown(headers.event)
        verified == headers.uuids
    IN  IF eventType = "repo:push"
        THEN Metadata(eventType, verified,
                      IF payload.ref.kind = "heads" THEN payload.ref.name ELSE "",
                      IF payload.ref.kind = "tags" THEN payload.ref.name ELSE "",
                      IF payload.ref.kind = "heads" THEN payload.after ELSE "")
        ELSE Metadata(eventType, verified, "", "", "")

GenericParse(payload, headers, secret) ==
    LET verified == IF secret # "" THEN headers.token = secret ELSE FALSE
    IN  Metadata("push", verified,
                 IF payload.ref.kind \in {"heads", "other"}
                 THEN payload.ref.name ELSE "",
                 IF payload.ref.kind = "tags" THEN payload.ref.name ELSE "",
                 payload.after)

getProviderHandler(provider, payload, headers, secret) ==
    CASE provider = "github" -> GitHubParse(payload, headers, secret)
      [] provider = "gitlab" -> GitLabParse(payload, headers, secret)
      [] provider = "bitbucket" -> BitbucketParse(payload, headers, secret)
      [] OTHER -> GenericParse(payload, headers, secret)

----------------------------------------------------------------------------
(* Entity store.  save() loads the row of the object's id, or dispenses a  *)
(* new row when the id is 0, and stores the object's fields into it.        *)

Store(table, id, row) ==
    IF id \in DOMAIN table THEN [table EXCEPT ![id] = row] ELSE Append(table, row)

StoredId(table, id) == IF id \in DOMAIN table THEN id ELSE Len(table) + 1

EventRow(ev) == [repositoryId |-> ev.repositoryId, buildId |-> ev.buildId,
                 status |-> ev.status, commit |-> ev.commit,
                 branch |-> ev.branch, tag |-> ev.tag,
                 eventType |-> ev.eventType]

fromBean(id, row) == [id |-> id, repositoryId |-> row.repositoryId,
                      buildId |-> row.buildId, status |-> row.status,
                      commit |-> row.commit, branch |-> row.branch,
                      tag |-> row.tag, eventType |-> row.eventType]

NoEvent == [id |-> 0, repositoryId |-> 0, buildId |-> <<>>, status |-> "",
            commit |-> "", branch |-> "", tag |-> "", eventType |-> ""]

----------------------------------------------------------------------------
(* WebhookHandler.processWebhook *)

BuildIds == 1 .. MaxBuildId

RepoFound(repoId) == repoId \in DOMAIN git_repositories

ProviderMismatch(repo, provider) == repo.provider # provider

\* A handler that never rejects an unverified request.
VerificationIgnored(repo, metadata) == FALSE

VerificationFailed(repo, metadata) ==
    repo.webhookSecret # "" /\ ~metadata.verified

\* A handler without the branch filter.
BranchNeverFiltered(repo, metadata) == FALSE

BranchNotMatched(repo, metadata) ==
    metadata.branch # "" /\ metadata.branch # repo.branch

ParseFor(req) ==
    getProviderHandler(req.route, req.payload, req.headers,
                       git_repositories[req.repoId].webhookSecret)

\* A handler that verifies the request before it compares the providers.
processWebhookChecksVerifyFirst(req) ==
    IF ~RepoFound(req.repoId) THEN 404
    ELSE IF VerificationFailed(git_repositories[req.repoId], ParseFor(req)) THEN 401
    ELSE IF ProviderMismatch(git_repositories[req.repoId], req.route) THEN 400
    ELSE IF BranchNotMatched(git_repositories[req.repoId], ParseFor(req)) THEN 200
    ELSE 0

\* The early returns of processWebhook: the HTTP status of the rejection, or
\* 0 when the request goes on to be saved.
processWebhookChecks(req) ==
    IF ~RepoFound(req.repoId) THEN 404
    ELSE IF ProviderMismatch(git_repositories[req.repoId], req.route) THEN 400
    ELSE IF VerificationFailed(git_repositories[req.repoId], ParseFor(req)) THEN 401
    ELSE IF BranchNotMatched(git_repositories[req.repoId], ParseFor(req)) THEN 200
    ELSE 0

NewWebhookEvent(req, count, buildId) ==
    LET metadata == ParseFor(req)
    IN  [id |-> count + 1, repositoryId |-> req.repoId,
         buildId |-> <<"random", buildId>>, status |-> BUILD_REQUESTED,
         commit |-> metadata.commit, branch |-> metadata.branch,
         tag |-> metadata.tag, eventType |-> metadata.eventType]

\* From the request's arrival to the await of event.save(): the checks, the
\* id taken from the row count, the random build id.
\* The request arrives when a Deployment of its commit for its repository is
\* already stored as succeeded (kept with the request for the properties; the
\* handler does not look).
AlreadyDeployed(req) ==
    \E d \in DOMAIN deployments :
        /\ deployments[d].status = DEPLOYMENT_SUCCEEDED
        /\ deployments[d].repositoryId = req.repoId
        /\ deployments[d].eventId \in DOMAIN webhook_events
        /\ webhook_events[deployments[d].eventId].commit = ParseFor(req).commit

\* queueBuild calls the model keeps room for: while loadPendingBuilds waits
\* for its query it will queue every pending row, also the rows that the
\* handlers now storing an event are about to add; a manual trigger storing
\* its event will call queueBuild itself.
Reserved ==
    LET storing == Cardinality({i \in DOMAIN http : http[i].pc = "saving"})
        triggering == Cardinality({m \in DOMAIN manual : manual[m].pc = "saving"})
        pending == Cardinality({id \in DOMAIN webhook_events :
                                   webhook_events[id].status
                                       \in {BUILD_REQUESTED, BUILD_QUEUED}})
    IN  IF loading THEN pending + storing + 2 * triggering ELSE triggering

\* n more queueBuild calls fit under the bound of the model.
Room(n) == Len(calls) + Reserved + n <= MaxCalls

processWebhookCalled(req) ==
    /\ \E b \in BuildIds :
         LET code == processWebhookChecks(req)
         IN  http' = Append(http,
                 IF code # 0
                 THEN [req |-> req, pc |-> "done", status |-> code,
                       ev |-> NoEvent, body |-> [eventId |-> 0, buildId |-> <<>>],
                       redelivery |-> FALSE]
                 ELSE [req |-> req, pc |-> "saving", status |-> 0,
                       ev |-> NewWebhookEvent(req, Len(webhook_events), b),
                       body |-> [eventId |-> 0, buildId |-> <<>>],
                       redelivery |-> AlreadyDeployed(req)])
    /\ UNCHANGED <<sideVars, webhook_events, deployments, manual, emitted, calls,
                   buildQueue, isProcessing, runs, loading>>

\* A webhook request arrives, within the requests and queueBuild calls the
\* model keeps room for.
WebhookReceive(req) ==
    /\ Len(http) + Len(manual) < MaxRequests
    /\ processWebhookChecks(req) = 0 /\ loading => Room(1)
    /\ processWebhookCalled(req)

\* event.save() returns: the row is stored, triggerBuild broadcasts
\* "buildRequested" to the connected clients, the response is sent.
WebhookSaved(i) ==
    /\ i \in DOMAIN http
    /\ http[i].pc = "saving"
    /\ LET ev == http[i].ev
           id == StoredId(webhook_events, ev.id)
       IN  /\ webhook_events' = Store(webhook_events, ev.id, EventRow(ev))
           /\ emitted' = emitted \cup {id}
           /\ http' = [http EXCEPT ![i].pc = "done", ![i].status = 200,
                                   ![i].ev.id = id,
                                   ![i].body = [eventId |-> id,
                                                buildId |-> ev.buildId]]
    /\ UNCHANGED <<sideVars, deployments, manual, calls, buildQueue, isProcessing,
                   runs, loading>>

----------------------------------------------------------------------------
(* BuildEngine.queueBuild and BuildEngine.processQueue *)

\* queueBuild up to its await of event.save(): the object is marked queued.
queueBuildCall(cs, ev) ==
    Append(cs, [ev |-> [ev EXCEPT !.status = BUILD_QUEUED], pc |-> "saving",
                notes |-> <<>>])

\* A queueBuild that starts a worker on every call.
ShouldProcessAlways(processing) == TRUE

\* queueBuild line 122: start the worker only when none is active.
ShouldProcess(processing) == ~processing

\* processBuild up to its first await: the event object is marked in progress.
NewRun(c, ev) ==
    [call |-> c, ev |-> [ev EXCEPT !.status = BUILD_IN_PROGRESS],
     pc |-> "saveInProgress", deployment |-> 0, phases |-> <<>>,
     error |-> "", pullFailed |-> FALSE, applied |-> FALSE,
     synced |-> <<>>, composeFile |-> <<>>]

\* The fields of the payload of each notification to the observers: lines
\* 113-117, 198-203, 345-350 and 164-169.
Payload(n) ==
    CASE n = "buildQueued" -> {"repositoryId", "eventId", "buildId"}
      [] n = "buildStarted" ->
             {"repositoryId", "eventId", "buildId", "deploymentId"}
      [] n = "buildCompleted" ->
             {"repositoryId", "eventId", "buildId", "deploymentId"}
      [] n = "buildFailed" -> {"repositoryId", "eventId", "buildId", "error"}

Note(cs, c, n) == [cs EXCEPT ![c].notes = Append(@, n)]

\* A processQueue that starts the build at the head of the queue and leaves
\* it in the queue.
processQueueKeepsHead(q, cs, rs) ==
    IF Len(q) = 0
    THEN /\ isProcessing' = FALSE
         /\ buildQueue' = q
         /\ calls' = cs
         /\ runs' = rs
    ELSE /\ isProcessing' = TRUE
         /\ buildQueue' = q
         /\ calls' = [cs EXCEPT ![q[1]].pc = "taken"]
         /\ runs' = Append(rs, NewRun(q[1], cs[q[1]].ev))

\* processQueue on queue q, up to the first await of processBuild.
processQueue(q, cs, rs) ==
    IF Len(q) = 0
    THEN /\ isProcessing' = FALSE
         /\ buildQueue' = q
         /\ calls' = cs
         /\ runs' = rs
    ELSE /\ isProcessing' = TRUE
         /\ buildQueue' = Tail(q)
         /\ calls' = [cs EXCEPT ![q[1]].pc = "taken"]
         /\ runs' = Append(rs, NewRun(q[1], cs[q[1]].ev))

\* A queueBuild that awaits processQueue: it does not return to its caller
\* when the event has joined the queue.
queueBuildAwaitsWorker(ms, c) == ms

\* triggerManualBuild lines 715-717: the queueBuild call c it awaits returns
\* and it returns the build id to its caller.
queueBuildReturned(ms, c) ==
    [m \in DOMAIN ms |->
        IF ms[m].pc = "queueing" /\ ms[m].call = c
        THEN [ms[m] EXCEPT !.pc = "done", !.result = ms[m].ev.buildId]
        ELSE ms[m]]

\* event.save() of queueBuild returns: the row is stored as queued, the event
\* joins the queue, observers are told, the worker is started if idle; a
\* triggerManualBuild awaiting this call returns its build id.
QueueBuildSaved(c) ==
    /\ c \in DOMAIN calls
    /\ calls[c].pc = "saving"
    /\ webhook_events' =
           Store(webhook_events, calls[c].ev.id, EventRow(calls[c].ev))
    /\ LET cs == Note([calls EXCEPT ![c].pc = "queued"], c, "buildQueued")
           q == Append(buildQueue, c)
       IN  IF ShouldProcess(isProcessing)
           THEN processQueue(q, cs, runs)
           ELSE /\ buildQueue' = q
                /\ calls' = cs
                /\ UNCHANGED <<isProcessing, runs>>
    /\ manual' = queueBuildReturned(manual, c)
    /\ UNCHANGED <<sideVars, deployments, http, emitted, loading>>

\* A connected client sends "buildRequested" for an event that was broadcast;
\* the listener of setupSocketListeners loads the event and queues it when its
\* stored status is still BUILD_REQUESTED.
BuildRequested(id) ==
    /\ Room(1)
    /\ id \in emitted
    /\ calls' = IF id \in DOMAIN webhook_events
                   /\ webhook_events[id].status = BUILD_REQUESTED
                THEN queueBuildCall(calls, fromBean(id, webhook_events[id]))
                ELSE calls
    /\ UNCHANGED <<sideVars, webhook_events, deployments, http, manual, emitted,
                   buildQueue, isProcessing, runs, loading>>

----------------------------------------------------------------------------
(* BuildEngine.processBuild.  The awaits between the store of the in-progress *)
(* status and the store of the final status touch only the worker's own       *)
(* deployment object and working copy, never the queue or the events table,   *)
(* so they are one action whose outcome is drawn from the outcomes of the     *)
(* external commands of each phase.                                           *)

\* path.normalize: "." is dropped, ".." removes the segment before it and
\* is kept where there is none to remove.
RECURSIVE normalize(_, _)
normalize(segs, acc) ==
    IF segs = <<>> THEN acc
    ELSE LET s == Head(segs)
         IN normalize(Tail(segs),
                IF s = "." THEN acc
                ELSE IF s = ".." /\ acc # <<>> /\ acc[Len(acc)] # ".."
                     THEN SubSeq(acc, 1, Len(acc) - 1)
                     ELSE Append(acc, s))

\* path.join: the segments of both arguments, normalized; "." when empty.
pathJoin(a, b) ==
    LET n == normalize(a \o b, <<>>)
    IN IF n = <<>> THEN <<".">> ELSE n

\* The directory the git commands work in:
\* path.join(process.env.DATA_DIR || "./data", "git", repo.stackId)
getRepositoryPath(repo) == pathJoin(<<".", "data">>, <<"git", repo.stackId>>)

\* The directory processBuild tests, runs the commands in and deploys from
\* (line 228).
repoPath(id) == pathJoin(<<".", "data">>, <<"git", "repos", ToString(id)>>)

\* buildConfig.composeFilePath || "docker-compose.yml" below repoPath
\* (line 480).
composeFilePath(id) == pathJoin(repoPath(id), <<"docker-compose.yml">>)

Phases == <<"sync", "preBuild", "build", "postBuild", "deploy">>

\* Deployment.save, the log columns: build_logs and deployment_logs are
\* written from the fields buildLogs and deploymentLogs of the object.
StoredLogs(deployment) ==
    [build_logs |-> deployment.buildLogs,
     deployment_logs |-> deployment.deploymentLogs]

\* The Deployment object of a build as the engine fills it: logs is the
\* property appendToLogs adds to; buildLogs and deploymentLogs keep the
\* defaults of the class (null, here the empty sequence).
NewDeployment(ev, status, logs) ==
    [repositoryId |-> ev.repositoryId, eventId |-> ev.id,
     buildId |-> ev.buildId, status |-> status, logs |-> logs,
     commitSha |-> "", buildLogs |-> <<>>, deploymentLogs |-> <<>>]

At(r, pc) == r \in DOMAIN runs /\ runs[r].pc = pc

\* lines 184-186: the in-progress status is stored.
SaveInProgress(r) ==
    /\ At(r, "saveInProgress")
    /\ webhook_events' =
           Store(webhook_events, runs[r].ev.id, EventRow(runs[r].ev))
    /\ runs' = [runs EXCEPT ![r].pc = "processBuild"]
    /\ UNCHANGED <<sideVars, deployments, http, manual, emitted, calls, buildQueue,
                   isProcessing, loading>>

\* lines 206-220: repository and build configuration are looked up.
LookupOutcome(repoId) ==
    IF repoId \notin DOMAIN git_repositories THEN "Repository not found"
    ELSE IF repoId \notin DOMAIN build_configs
    THEN "Build configuration not found"
    ELSE ""

\* lines 227-273: pull when the working copy exists, clone otherwise and also
\* when the pull threw (the catch of the same try), then check out the branch.
SyncOutcome(exists, pullOk, cloneOk, onBranch, checkoutOk) ==
    IF ~((exists /\ pullOk) \/ cloneOk) THEN "sync failed"
    ELSE IF ~(onBranch \/ checkoutOk) THEN "sync failed"
    ELSE ""

\* The sync of lines 227-273 with what it leaves behind: pullFailed when the
\* directory existed and pullRepository returned false or threw.
SyncResult(exists, pullOk, cloneOk, onBranch, checkoutOk) ==
    [error |-> SyncOutcome(exists, pullOk, cloneOk, onBranch, checkoutOk),
     pullFailed |-> exists /\ ~pullOk]

\* lines 275-300 and 305-330: the n commands run in order and the first
\* non-zero exit throws; ok is the number of commands that exit zero.
CommandsOutcome(n, ok, error) == IF ok >= n THEN "" ELSE error

\* buildApplication and buildDocker, lines 379-459.
BuildOutcome(buildType, dockerfileFound, dockerOk) ==
    IF buildType = "docker-build"
    THEN IF ~dockerfileFound THEN "build failed"
         ELSE IF ~dockerOk THEN "build failed"
         ELSE ""
    ELSE IF buildType = "compose-only" THEN ""
    ELSE "build failed"

\* deployApplication, lines 468-523: any failure is rethrown.
DeployOutcome(composeFound, stackOk) ==
    IF ~composeFound THEN "deploy failed"
    ELSE IF ~stackOk THEN "deploy failed"
    ELSE ""

\* deployApplication with what it leaves behind: applied when the compose
\* file was read and Stack.save wrote the stack's files (lines 483-512),
\* after which Stack.deploy is invoked (line 517).
DeployResult(composeFound, saveOk, deployOk) ==
    [error |-> DeployOutcome(composeFound, saveOk /\ deployOk),
     applied |-> composeFound /\ saveOk]

\* What the external commands of the five phases can return for a
\* configuration: one result per phase, "" when the phase does not throw.
PossibleResults(config) ==
    {[res |-> <<s.error, r2, r3, r4, d.error>>,
      pullFailed |-> s.pullFailed, applied |-> d.applied] :
        s \in {SyncResult(a, b, c, e, f) : a, b, c, e, f \in BOOLEAN},
        r2 \in {CommandsOutcome(config.preBuildCommands, ok, "preBuild failed") :
                   ok \in 0 .. config.preBuildCommands},
        r3 \in {BuildOutcome(config.buildType, a, b) : a, b \in BOOLEAN},
        r4 \in {CommandsOutcome(config.postBuildCommands, ok, "postBuild failed") :
                   ok \in 0 .. config.postBuildCommands},
        d \in {DeployResult(a, b, c) : a, b, c \in BOOLEAN}}

\* processBuild runs the phases in order and stops at the first that throws:
\* the phases that returned, from phase i on, given the results.
RECURSIVE Returned(_, _)
Returned(res, i) ==
    IF i > Len(Phases) \/ res[i] # "" THEN <<>>
    ELSE <<Phases[i]>> \o Returned(res, i + 1)

\* A processBuild that swallows the error of the post-build commands.
ThrownUnlessPostBuild(res) ==
    LET failing == {k \in DOMAIN Phases :
                        res[k] # "" /\ Phases[k] # "postBuild"}
    IN  IF failing = {} THEN ""
        ELSE res[CHOOSE k \in failing : \A j \in failing : k <= j]

\* The error of the first phase that throws, "" when none does.
Thrown(res) ==
    LET failing == {k \in DOMAIN Phases : res[k] # ""}
    IN  IF failing = {} THEN ""
        ELSE res[CHOOSE k \in failing : \A j \in failing : k <= j]

\* lines 188-333 and the catch at 146-150: the deployment record is created,
\* observers are told the build started, the phases run; the event object
\* is marked completed when all returned and failed when one threw.
processBuild(r) ==
    /\ At(r, "processBuild")
    /\ LET d == Len(deployments) + 1
           repoId == runs[r].ev.repositoryId
           lookup == LookupOutcome(repoId)
       IN  /\ calls' = Note(calls, runs[r].call, "buildStarted")
           /\ IF lookup # ""
              THEN /\ deployments' =
                        Append(deployments,
                               NewDeployment(runs[r].ev, DEPLOYMENT_IN_PROGRESS,
                                             <<>>))
                   /\ runs' = [runs EXCEPT ![r].pc = "saveFailed",
                                           ![r].deployment = d,
                                           ![r].error = lookup,
                                           ![r].ev.status = BUILD_FAILED]
              ELSE \E o \in PossibleResults(build_configs[repoId]) :
                   LET res == o.res IN
                     /\ deployments' =
                          Append(deployments,
                                 NewDeployment(runs[r].ev, DEPLOYMENT_IN_PROGRESS,
                                               <<"Starting build">>
                                               \o Returned(res, 1)))
                     /\ runs' = [runs EXCEPT
                           ![r].pc = IF Thrown(res) = ""
                                     THEN "saveCompleted" ELSE "saveFailed",
                           ![r].deployment = d,
                           ![r].phases = Returned(res, 1),
                           ![r].error = Thrown(res),
                           ![r].pullFailed = o.pullFailed,
                           ![r].applied =
                               o.applied /\ Len(Returned(res, 1)) >= 4,
                           ![r].synced =
                               IF Len(Returned(res, 1)) >= 1
                               THEN getRepositoryPath(git_repositories[repoId])
                               ELSE <<>>,
                           ![r].composeFile =
                               IF o.applied /\ Len(Returned(res, 1)) >= 4
                               THEN composeFilePath(repoId) ELSE <<>>,
                           ![r].ev.status = IF Thrown(res) = ""
                                            THEN BUILD_COMPLETED
                                            ELSE BUILD_FAILED]
    /\ UNCHANGED <<sideVars, webhook_events, http, manual, emitted, buildQueue,
                   isProcessing, loading>>

\* lines 335-337: the completed status is stored.
SaveCompleted(r) ==
    /\ At(r, "saveCompleted")
    /\ webhook_events' =
           Store(webhook_events, runs[r].ev.id, EventRow(runs[r].ev))
    /\ runs' = [runs EXCEPT ![r].pc = "saveSucceeded"]
    /\ UNCHANGED <<sideVars, deployments, http, manual, emitted, calls, buildQueue,
                   isProcessing, loading>>

\* lines 339-352 and 173-174: the deployment is stored as succeeded, observers
\* are told, processQueue schedules itself.
SaveSucceeded(r) ==
    /\ At(r, "saveSucceeded")
    /\ deployments' =
           [deployments EXCEPT ![runs[r].deployment].status = DEPLOYMENT_SUCCEEDED]
    /\ calls' = Note(calls, runs[r].call, "buildCompleted")
    /\ runs' = [runs EXCEPT ![r].pc = "timer"]
    /\ UNCHANGED <<sideVars, webhook_events, http, manual, emitted, buildQueue,
                   isProcessing, loading>>

\* processQueue's catch, lines 146-151: the failed status is stored.
SaveFailed(r) ==
    /\ At(r, "saveFailed")
    /\ webhook_events' =
           Store(webhook_events, runs[r].ev.id, EventRow(runs[r].ev))
    /\ runs' = [runs EXCEPT ![r].pc = "createFailedDeployment"]
    /\ UNCHANGED <<sideVars, deployments, http, manual, emitted, calls, buildQueue,
                   isProcessing, loading>>

\* A catch that marks every deployment record of the event as failed
\* instead of storing a new one.
FailedDeploymentMarksAll(deps, run) ==
    [d \in DOMAIN deps |->
        IF deps[d].eventId = run.ev.id
        THEN [deps[d] EXCEPT !.status = DEPLOYMENT_FAILED]
        ELSE deps[d]]

\* The deployment record the catch stores for a failed build, lines 153-162.
FailedDeployment(deps, run) ==
    Append(deps, NewDeployment(run.ev, DEPLOYMENT_FAILED,
                               <<"Build failed", run.error>>))

\* lines 153-174: the failed deployment is stored, observers are told,
\* processQueue schedules itself.
CreateFailedDeployment(r) ==
    /\ At(r, "createFailedDeployment")
    /\ deployments' = FailedDeployment(deployments, runs[r])
    /\ calls' = Note(calls, runs[r].call, "buildFailed")
    /\ runs' = [runs EXCEPT ![r].pc = "timer"]
    /\ UNCHANGED <<sideVars, webhook_events, http, manual, emitted, buildQueue,
                   isProcessing, loading>>

\* line 174: the timer fires and processQueue runs again.
Timer(r) ==
    /\ At(r, "timer")
    /\ processQueue(buildQueue, calls, [runs EXCEPT ![r].pc = "done"])
    /\ UNCHANGED <<sideVars, webhook_events, deployments, http, manual, emitted,
                   loading>>

----------------------------------------------------------------------------
(* BuildEngine.triggerManualBuild *)

\* A lookup that returns a repository whatever the stack.
findByStackNameAny(stackName) == DOMAIN git_repositories

findByStackName(stackName) ==
    {i \in DOMAIN git_repositories : git_repositories[i].stackId = stackName}

\* lines 687-712: up to the await of event.save(); Date.now() is tick.
TriggerManualBuild(stackName) ==
    /\ Len(http) + Len(manual) < MaxRequests
    /\ findByStackName(stackName) # {} => Room(IF loading THEN 2 ELSE 1)
    /\ \E tick \in BuildIds :
         manual' = Append(manual,
             IF findByStackName(stackName) = {}
             THEN [stackName |-> stackName, pc |-> "error", ev |-> NoEvent,
                   call |-> 0, result |-> <<>>]
             ELSE [stackName |-> stackName, pc |-> "saving",
                   ev |-> [id |-> 0,
                           repositoryId |-> CHOOSE i \in findByStackName(stackName) : TRUE,
                           buildId |-> <<"manual", tick>>,
                           status |-> BUILD_REQUESTED, commit |-> "manual",
                           branch |-> "", tag |-> "", eventType |-> "manual"],
                   call |-> 0, result |-> <<>>])
    /\ UNCHANGED <<sideVars, webhook_events, deployments, http, emitted, calls,
                   buildQueue, isProcessing, runs, loading>>

\* lines 712-715: the event is stored under a new id and queueBuild is called.
ManualSaved(m) ==
    /\ m \in DOMAIN manual
    /\ manual[m].pc = "saving"
    /\ LET id == Len(webhook_events) + 1
           ev == [manual[m].ev EXCEPT !.id = id]
       IN  /\ webhook_events' = Append(webhook_events, EventRow(ev))
           /\ calls' = queueBuildCall(calls, ev)
           /\ manual' = [manual EXCEPT ![m].pc = "queueing", ![m].ev = ev,
                                       ![m].call = Len(calls) + 1]
    /\ UNCHANGED <<sideVars, deployments, http, emitted, buildQueue, isProcessing, runs,
                   loading>>

----------------------------------------------------------------------------
(* BuildEngine.loadPendingBuilds, called by the constructor *)

\* A query that forgets the events that had already joined the queue.
PendingRequestedOnly(row) == row.status = BUILD_REQUESTED

\* lines 81-84: the events loadPendingBuilds asks for.
Pending(row) == row.status \in {BUILD_REQUESTED, BUILD_QUEUED}

RECURSIVE queueAll(_, _, _)
queueAll(cs, table, id) ==
    IF id > Len(table) THEN cs
    ELSE queueAll(IF Pending(table[id])
                  THEN queueBuildCall(cs, fromBean(id, table[id]))
                  ELSE cs,
                  table, id + 1)

\* lines 78-97: the query returns and every pending event is queued.
LoadPendingBuilds ==
    /\ loading
    /\ loading' = FALSE
    /\ calls' = queueAll(calls, webhook_events, 1)
    /\ UNCHANGED <<sideVars, webhook_events, deployments, http, manual, emitted,
                   buildQueue, isProcessing, runs>>

----------------------------------------------------------------------------

\* A row the previous process left behind when it stopped.
StoredRow(status) ==
    [repositoryId |-> 2, buildId |-> <<"random", 1>>, status |-> status,
     commit |-> "abc123", branch |-> "main", tag |-> "", eventType |-> "push"]

StartupTables ==
    UNION {[1 .. n -> {StoredRow(st) : st \in {BUILD_REQUESTED, BUILD_QUEUED,
                                               BUILD_IN_PROGRESS}}] :
           n \in 0 .. MaxStored}

\* The process has just been constructed: the tables hold what the previous
\* process stored, the clients still hold the requests broadcast to them,
\* loadPendingBuilds has issued its query.
\* The components that the other specifications exercise are untouched: no
\* file call, no GitHub, GitLab or generic webhook received, no build id
\* generated and the clock at 0, ENCRYPTION_KEY unread and nothing sealed,
\* the repository row as the migration's defaults leave it and never synced
\* (last_synced_at and last_synced_commit null, 0), build_configs empty,
\* processBuild not at its commands, no build file named.
Init ==
    /\ webhook_events \in StartupTables
    /\ deployments = <<>>
    /\ http = <<>>
    /\ manual = <<>>
    /\ emitted = {id \in DOMAIN webhook_events :
                     webhook_events[id].status = BUILD_REQUESTED}
    /\ calls = <<>>
    /\ buildQueue = <<>>
    /\ isProcessing = FALSE
    /\ runs = <<>>
    /\ loading = TRUE
    /\ fileAccess =
           [root |-> <<>>, requested |-> <<>>, ops |-> <<>>, result |-> "empty"]
    /\ signatureCheck =
           [raw |-> "", parsed |-> FALSE, signature |-> <<>>, secret |-> "",
            verified |-> FALSE]
    /\ buildFiles =
           [phase |-> "none", root |-> <<>>, resolved |-> <<>>, ops |-> <<>>,
            error |-> ""]
    /\ tokenCheck =
           [provider |-> "", xGitlabToken |-> "", xWebhookToken |-> "",
            xWebhookSecret |-> "", secret |-> "", after |-> "",
            verified |-> FALSE]
    /\ commandRun =
           [pre |-> <<>>, post |-> <<>>, buildType |-> "compose-only",
            pc |-> "idle", i |-> 1, running |-> {}, executed |-> <<>>,
            error |-> ""]
    /\ sync =
           LET NeverSynced == [lastSyncedCommit |-> 0, lastSyncedAt |-> 0]
           IN  [repo |-> NeverSynced, row |-> NeverSynced,
                copy |-> [exists |-> FALSE, head |-> 0], remote |-> 1, now |-> 1,
                call |-> [op |-> "none", pc |-> "returned", success |-> FALSE],
                before |-> [repo |-> NeverSynced, row |-> NeverSynced]]
    /\ configs = [rows |-> <<>>, saves |-> <<>>]
    /\ vault =
           [env |-> "unread", firstKey |-> <<>>, sealed |-> {},
            row |-> [auth_type |-> "none", credentials_json |-> <<>>]]
    /\ encryptionKey = <<>>
    /\ issued = [now |-> 0, ids |-> <<>>]

Ingest ==
    \/ \E req \in Requests : WebhookReceive(req)
    \/ \E i \in DOMAIN http : WebhookSaved(i)
    \/ \E id \in emitted : BuildRequested(id)
    \/ \E stackName \in StackNames : TriggerManualBuild(stackName)
    \/ \E m \in DOMAIN manual : ManualSaved(m)

Worker ==
    \/ \E c \in DOMAIN calls : QueueBuildSaved(c)
    \/ \E r \in DOMAIN runs :
         \/ SaveInProgress(r)
         \/ processBuild(r)
         \/ SaveCompleted(r)
         \/ SaveSucceeded(r)
         \/ SaveFailed(r)
         \/ CreateFailedDeployment(r)
         \/ Timer(r)
    \/ LoadPendingBuilds

Next == Ingest \/ Worker

Spec == Init /\ [][Next]_vars

\* The initial state of the specifications that exercise one component
\* alone: the process has just been constructed on empty tables.
AloneInit == Init /\ webhook_events = <<>>

\* The engine's own steps and the stores of the handlers are scheduled by the
\* event loop; the arrival of requests and of client messages is not.
Scheduled ==
    \/ \E i \in DOMAIN http : WebhookSaved(i)
    \/ \E m \in DOMAIN manual : ManualSaved(m)
    \/ Worker

FairSpec == Spec /\ WF_vars(Scheduled)

\* An external command of the build (git, a pre-build or post-build command,
\* docker build: execPromise is called without a timeout, lines 285, 315, 446)
\* never terminates: processBuild stays at its await.
CommandHangs(r) ==
    /\ At(r, "processBuild")
    /\ LookupOutcome(runs[r].ev.repositoryId) = ""
    /\ deployments' =
           Append(deployments,
                  NewDeployment(runs[r].ev, DEPLOYMENT_IN_PROGRESS,
                                <<"Starting build">>))
    /\ calls' = Note(calls, runs[r].call, "buildStarted")
    /\ runs' = [runs EXCEPT ![r].pc = "hung",
                            ![r].deployment = Len(deployments) + 1]
    /\ UNCHANGED <<sideVars, webhook_events, http, manual, emitted, buildQueue,
                   isProcessing, loading>>

NextOrHang == Next \/ \E r \in DOMAIN runs : CommandHangs(r)

\* The program with external commands that may never terminate.
HangSpec == Init /\ [][NextOrHang]_vars /\ WF_vars(Scheduled)

\* event.save() or deployment.save() of processQueue's catch (lines 150 and
\* 162) throws: the error leaves processQueue, whose line 174 is not
\* reached, so no timer is set and isProcessing keeps its value.
RecordingThrows(r) ==
    /\ At(r, "saveFailed") \/ At(r, "createFailedDeployment")
    /\ runs' = [runs EXCEPT ![r].pc = "recordingThrew"]
    /\ UNCHANGED <<sideVars, webhook_events, deployments, http, manual, emitted,
                   calls, buildQueue, isProcessing, loading>>

NextOrThrow == Next \/ \E r \in DOMAIN runs : RecordingThrows(r)

\* The program with a store that may fail while a build failure is recorded.
ThrowSpec == Init /\ [][NextOrThrow]_vars /\ WF_vars(Scheduled)

----------------------------------------------------------------------------
(* GitOperations: file access below a repository's working copy *)

MaxPathLen == 3

Segments == {"..", ".", "s10", "f"}

\* The requested paths, split at "/".
Paths == UNION {[1..n -> Segments] : n \in 0..MaxPathLen}

\* The characters of a path segment.
Chars(name) ==
    CASE name = "data" -> <<"d", "a", "t", "a">>
      [] name = "git" -> <<"g", "i", "t">>
      [] name = "s1" -> <<"s", "1">>
      [] name = "s2" -> <<"s", "2">>
      [] name = "s10" -> <<"s", "1", "0">>
      [] name = ".." -> <<".", ".">>
      [] name = "." -> <<".">>
      [] name = "f" -> <<"f">>

\* The string of a path: its segments' characters separated by "/".
RECURSIVE Str(_)
Str(path) ==
    IF path = <<>> THEN <<>>
    ELSE IF Len(path) = 1 THEN Chars(path[1])
    ELSE Chars(path[1]) \o <<"/">> \o Str(Tail(path))

\* String.prototype.startsWith
startsWith(s, prefix) ==
    Len(prefix) <= Len(s) /\ SubSeq(s, 1, Len(prefix)) = prefix

\* The body shared by getFileContent and listFiles: stat of the root, the
\* check of the joined path, then the read named by op, which may throw.
FileCall(id, filePath, isDirectory, op, readOk) ==
    LET repositoryPath == getRepositoryPath(git_repositories[id])
        fullPath == pathJoin(repositoryPath, filePath)
        stat == [op |-> "stat", path |-> repositoryPath]
        read == [op |-> op, path |-> fullPath]
        checked == isDirectory /\ startsWith(Str(fullPath), Str(repositoryPath))
    IN [root |-> repositoryPath,
        requested |-> fullPath,
        ops |-> IF checked THEN <<stat, read>> ELSE <<stat>>,
        result |-> IF checked /\ readOk THEN "content" ELSE "empty"]

getFileContent ==
    /\ \E id \in DOMAIN git_repositories, filePath \in Paths,
          isDirectory \in BOOLEAN, readOk \in BOOLEAN :
           fileAccess' = FileCall(id, filePath, isDirectory, "readFile", readOk)
    /\ UNCHANGED <<engineVars, signatureCheck, issued, encryptionKey, vault, configs, sync, commandRun, tokenCheck, buildFiles>>

listFiles ==
    /\ \E id \in DOMAIN git_repositories, directory \in Paths,
          isDirectory \in BOOLEAN, readOk \in BOOLEAN :
           fileAccess' = FileCall(id, directory, isDirectory, "readdir", readOk)
    /\ UNCHANGED <<engineVars, signatureCheck, issued, encryptionKey, vault, configs, sync, commandRun, tokenCheck, buildFiles>>

FileNext == getFileContent \/ listFiles

\* The file calls of GitOperations alone, on every repository and path.
FileSpec == AloneInit /\ [][FileNext]_vars

----------------------------------------------------------------------------
(* The GitHub route alone: body parser, then parseWebhookPayload *)

Secrets == {"s3cret", "wrong"}

\* X-Hub-Signature-256 headers: absent, the HMAC-SHA256 of some body under
\* some secret, or a digest announced under another prefix.
Signatures ==
    {<<>>} \cup {Hmac(signed, k) : signed \in RawBodies, k \in Secrets}
           \cup {<<"sha1=", k, signed>> : signed \in RawBodies, k \in Secrets}

\* req.body is the parsed object when the JSON body parser is mounted and
\* the text of the body when a text parser is.
GitHubWebhook ==
    /\ \E raw \in RawBodies, signature \in Signatures, parsed \in BOOLEAN :
           LET payload == IF parsed THEN JSONparse(raw) ELSE [text |-> raw]
               headers == [event |-> "push", token |-> "", sig |-> signature,
                           uuids |-> FALSE]
               metadata == GitHubParse(payload, headers, "s3cret")
           IN signatureCheck' =
                  [raw |-> raw, parsed |-> parsed, signature |-> signature,
                   secret |-> "s3cret", verified |-> metadata.verified]
    /\ UNCHANGED <<engineVars, fileAccess, issued, encryptionKey, vault, configs, sync, commandRun, tokenCheck, buildFiles>>

SignatureNext == GitHubWebhook

SignatureSpec == AloneInit /\ [][SignatureNext]_vars

----------------------------------------------------------------------------
(* The build ids alone: the two generators and the clock *)

\* A millisecond passes.
ClockTick ==
    /\ issued.now < MaxClock
    /\ issued' = [issued EXCEPT !.now = @ + 1]
    /\ UNCHANGED <<engineVars, fileAccess, signatureCheck, encryptionKey, vault, configs, sync, commandRun, tokenCheck, buildFiles>>

\* processWebhook: generateRandomCharacters(8).toUpperCase()
WebhookBuildId ==
    /\ Len(issued.ids) < MaxIssued
    /\ \E b \in BuildIds :
           issued' = [issued EXCEPT !.ids = Append(@, <<"random", b>>)]
    /\ UNCHANGED <<engineVars, fileAccess, signatureCheck, encryptionKey, vault, configs, sync, commandRun, tokenCheck, buildFiles>>

\* triggerManualBuild: `manual-${Date.now()}`
ManualBuildId ==
    /\ Len(issued.ids) < MaxIssued
    /\ issued' = [issued EXCEPT !.ids = Append(@, <<"manual", issued.now>>)]
    /\ UNCHANGED <<engineVars, fileAccess, signatureCheck, encryptionKey, vault, configs, sync, commandRun, tokenCheck, buildFiles>>

IdNext == ClockTick \/ WebhookBuildId \/ ManualBuildId

IdSpec == AloneInit /\ [][IdNext]_vars

----------------------------------------------------------------------------
(* utils/crypto and GitRepository.save: the key and the sealed credentials *)

AuthTypes == {"none", "ssh_key", "http_token"}

\* GitRepository.credentials: undefined, or an object.
NoCredentials == [defined |-> FALSE, token |-> "", privateKey |-> ""]

Credentials ==
    { [defined |-> TRUE, token |-> "t0k3n", privateKey |-> ""],
      [defined |-> TRUE, token |-> "", privateKey |-> "k3y"] }

\* JSON.stringify(this.credentials)
credentialsString(c) ==
    IF c.token # "" THEN "{\"token\":\"t0k3n\"}"
    ELSE "{\"privateKey\":\"k3y\"}"

\* process.env.ENCRYPTION_KEY is fixed for the process; it is chosen when
\* the vault is first used.
EnvChoices(env) == IF env = "unread" THEN {"set", "unset"} ELSE {env}

\* initEncryptionKey(keyString): the key it assigns; rnd is randomBytes(32).
initEncryptionKey(current, keyString, env, rnd) ==
    IF keyString # "" THEN <<"hex", keyString>>
    ELSE IF env = "set" THEN <<"hex", "ENCRYPTION_KEY">>
    ELSE <<"random", rnd>>

\* if (!encryptionKey) initEncryptionKey(), first lines of encryptText and
\* of decryptText.
keyInUse(current, env, rnd) ==
    IF current = <<>> THEN initEncryptionKey(current, "", env, rnd)
    ELSE current

\* AES-256-GCM: iv, authentication tag and data are a function of the iv,
\* the key and the text.
encryptText(text, key, iv) == <<iv, key, text>>

\* decryptText: the text when the key is the one that sealed it, "" for the
\* error it throws otherwise.
decryptText(encryptedText, key) ==
    IF encryptedText[2] = key THEN encryptedText[3] ELSE ""

FirstKey(key) == IF vault.firstKey = <<>> THEN key ELSE vault.firstKey

\* A caller initializes the key, with or without a key string.
InitEncryptionKeyCalled ==
    /\ \E keyString \in {"", "c0ffee"}, env \in EnvChoices(vault.env),
          rnd \in 1 .. MaxKey :
           LET key == initEncryptionKey(encryptionKey, keyString, env, rnd)
           IN  /\ encryptionKey' = key
               /\ vault' = [vault EXCEPT !.env = env, !.firstKey = FirstKey(key)]
    /\ UNCHANGED <<engineVars, fileAccess, signatureCheck, issued, configs, sync, commandRun, tokenCheck, buildFiles>>

\* new GitHandler(server): initEncryptionKey() without a key string.
GitHandlerConstructed ==
    /\ \E env \in EnvChoices(vault.env), rnd \in 1 .. MaxKey :
           LET key == initEncryptionKey(encryptionKey, "", env, rnd)
           IN  /\ encryptionKey' = key
               /\ vault' = [vault EXCEPT !.env = env, !.firstKey = FirstKey(key)]
    /\ UNCHANGED <<engineVars, fileAccess, signatureCheck, issued, configs, sync, commandRun, tokenCheck, buildFiles>>

\* GitRepository.save of an object with the given authType and credentials.
SaveRepository ==
    /\ \E authType \in AuthTypes, c \in Credentials \cup {NoCredentials},
          env \in EnvChoices(vault.env), rnd \in 1 .. MaxKey, iv \in 1 .. MaxIv :
           IF c.defined
           THEN LET key == keyInUse(encryptionKey, env, rnd)
                    blob == encryptText(credentialsString(c), key, iv)
                IN  /\ Cardinality(vault.sealed \cup {blob}) <= MaxSealed
                    /\ encryptionKey' = key
                    /\ vault' = [env |-> env, firstKey |-> FirstKey(key),
                                 sealed |-> vault.sealed \cup {blob},
                                 row |-> [auth_type |-> authType,
                                          credentials_json |-> blob]]
           ELSE /\ encryptionKey' = encryptionKey
                /\ vault' = [vault EXCEPT
                       !.row = [auth_type |-> authType,
                                credentials_json |-> <<>>]]
    /\ UNCHANGED <<engineVars, fileAccess, signatureCheck, issued, configs, sync, commandRun, tokenCheck, buildFiles>>

\* GitRepository.fromBean of the stored row: decryptText when
\* credentials_json is set.
LoadRepository ==
    /\ vault.row.credentials_json # <<>>
    /\ \E env \in EnvChoices(vault.env), rnd \in 1 .. MaxKey :
           LET key == keyInUse(encryptionKey, env, rnd)
           IN  /\ encryptionKey' = key
               /\ vault' = [vault EXCEPT !.env = env, !.firstKey = FirstKey(key)]
    /\ UNCHANGED <<engineVars, fileAccess, signatureCheck, issued, configs, sync, commandRun, tokenCheck, buildFiles>>

VaultNext ==
    \/ InitEncryptionKeyCalled
    \/ GitHandlerConstructed
    \/ SaveRepository
    \/ LoadRepository

VaultSpec == AloneInit /\ [][VaultNext]_vars

----------------------------------------------------------------------------
(* BuildEngine.saveBuildConfig and the table build_configs *)

\* data.buildType: absent, or a value of the table's enum.
BuildTypesGiven == {"", "compose_only"}

\* The check the enum column build_type puts on a row (migration, line 9).
BuildTypeEnum == {"docker_build", "compose_only", "script"}

\* R.findOne("build_configs", " stack_name = ? ", [stackName]): the ids of
\* the rows whose column stack_name is stackName; the query fails, and
\* findByStackName returns null, when the rows have no such column.
findConfigByStackName(rows, stackName) ==
    {k \in DOMAIN rows :
        "stack_name" \in DOMAIN rows[k] /\ rows[k]["stack_name"] = stackName}

\* BuildConfig.save writes stack_id from the stackId field of the object,
\* which saveBuildConfig leaves at its default "".
ConfigBean(config) ==
    [stack_id |-> config.stackId, build_type |-> config.buildType]

\* The table accepts the bean as row id: the enum of build_type and the
\* unique constraint on stack_id (migration, lines 9 and 23).
StoreAccepts(rows, id, bean) ==
    /\ bean.build_type \in BuildTypeEnum
    /\ \A k \in DOMAIN rows : k # id => rows[k].stack_id # bean.stack_id

\* lines 530-541: the call up to the await of findByStackName; hadConfig
\* records that a save for this stack had returned before the call.
SaveBuildConfigCalled ==
    /\ Len(configs.saves) < MaxSaves
    /\ \E stackName \in StackNames, buildType \in BuildTypesGiven :
           configs' = [configs EXCEPT !.saves = Append(@,
               [stackName |-> stackName, buildType |-> buildType,
                pc |-> "finding", id |-> 0,
                hadConfig |-> \E i \in DOMAIN configs.saves :
                                 /\ configs.saves[i].stackName = stackName
                                 /\ configs.saves[i].pc = "returned"])]
    /\ UNCHANGED <<engineVars, fileAccess, signatureCheck, issued,
                   encryptionKey, vault, sync, commandRun, tokenCheck, buildFiles>>

\* lines 535-553: the query returns; the object is the row found or a new
\* BuildConfig, and is ready to be saved.
SaveBuildConfigFound(c) ==
    /\ c \in DOMAIN configs.saves
    /\ configs.saves[c].pc = "finding"
    /\ LET found == findConfigByStackName(configs.rows, configs.saves[c].stackName)
       IN  configs' = [configs EXCEPT
               !.saves[c].pc = "saving",
               !.saves[c].id = IF found = {} THEN 0
                               ELSE CHOOSE k \in found : TRUE]
    /\ UNCHANGED <<engineVars, fileAccess, signatureCheck, issued,
                   encryptionKey, vault, sync, commandRun, tokenCheck, buildFiles>>

\* lines 543 and 553, BuildConfig.save: the bean is stored, as a new row
\* when the object has no id; a row the table refuses makes the call throw.
SaveBuildConfigStored(c) ==
    /\ c \in DOMAIN configs.saves
    /\ configs.saves[c].pc = "saving"
    /\ LET call == configs.saves[c]
           config == [stackId |-> "",
                      buildType |-> IF call.buildType = "" THEN "compose-only"
                                    ELSE call.buildType]
           bean == ConfigBean(config)
           id == IF call.id = 0 THEN Len(configs.rows) + 1 ELSE call.id
       IN  IF StoreAccepts(configs.rows, id, bean)
           THEN configs' = [rows |-> IF call.id = 0
                                     THEN Append(configs.rows, bean)
                                     ELSE [configs.rows EXCEPT ![id] = bean],
                            saves |-> [configs.saves EXCEPT
                                          ![c].pc = "returned", ![c].id = id]]
           ELSE configs' = [configs EXCEPT !.saves[c].pc = "thrown"]
    /\ UNCHANGED <<engineVars, fileAccess, signatureCheck, issued,
                   encryptionKey, vault, sync, commandRun, tokenCheck, buildFiles>>

ConfigNext ==
    \/ SaveBuildConfigCalled
    \/ \E c \in DOMAIN configs.saves : SaveBuildConfigFound(c)
    \/ \E c \in DOMAIN configs.saves : SaveBuildConfigStored(c)

ConfigSpec == AloneInit /\ [][ConfigNext]_vars

----------------------------------------------------------------------------
(* GitHandler.cloneRepository, pullRepository and checkoutBranch *)

\* GitOperations.cloneRepository, pullRepository and checkoutBranch on the
\* working copy, ok being the outcome of the git command: a clone of a
\* directory that exists returns true without cloning (lines 75-79), a pull
\* or a checkout of a directory that does not exist returns false (lines
\* 113-117 and 139-143); a checkout moves HEAD to a commit the copy holds.
GitOperationsResult(op, copy, remote, ok, target) ==
    IF ~ok THEN [success |-> FALSE, copy |-> copy]
    ELSE IF op = "clone"
         THEN [success |-> TRUE,
               copy |-> IF copy.exists THEN copy
                        ELSE [exists |-> TRUE, head |-> remote]]
    ELSE IF ~copy.exists THEN [success |-> FALSE, copy |-> copy]
    ELSE IF op = "pull"
         THEN [success |-> TRUE, copy |-> [copy EXCEPT !.head = remote]]
    ELSE [success |-> TRUE, copy |-> [copy EXCEPT !.head = target]]

\* GitOperations.getCurrentCommit, lines 202-235: the sha of HEAD, or null
\* (0) when the directory is missing or a git command fails.
getCurrentCommit(copy, ok) ==
    IF copy.exists /\ ok THEN copy.head ELSE 0

\* A handler that reads and records the current commit whether or not the
\* clone or pull succeeded.
RecordsSyncOnFailure(op, success) ==
    op \in {"clone", "pull"}

\* if (success), lines 93 and 125: the handler goes on to read the current
\* commit; checkoutBranch (lines 148-161) has no such branch.
RecordsSync(op, success) ==
    op \in {"clone", "pull"} /\ success

\* The remote branch receives a commit.
RemotePushed ==
    /\ sync.remote < MaxCommit
    /\ sync' = [sync EXCEPT !.remote = @ + 1]
    /\ UNCHANGED <<engineVars, fileAccess, signatureCheck, issued,
                   encryptionKey, vault, configs, commandRun, tokenCheck, buildFiles>>

\* The clock that new Date() reads advances.
SyncClockTick ==
    /\ sync.now < MaxClock
    /\ sync' = [sync EXCEPT !.now = @ + 1]
    /\ UNCHANGED <<engineVars, fileAccess, signatureCheck, issued,
                   encryptionKey, vault, configs, commandRun, tokenCheck, buildFiles>>

\* lines 83-91, 115-123 and 148-156: a handler is called, one at a time as
\* processBuild does (build-engine.ts, lines 240-267), and awaits the git
\* operation; before holds the fields as the call found them.
GitHandlerCalled(op) ==
    /\ sync.call.pc = "returned"
    /\ sync' = [sync EXCEPT
           !.call = [op |-> op, pc |-> "git", success |-> FALSE],
           !.before = [repo |-> sync.repo, row |-> sync.row]]
    /\ UNCHANGED <<engineVars, fileAccess, signatureCheck, issued,
                   encryptionKey, vault, configs, commandRun, tokenCheck, buildFiles>>

\* lines 91-93, 123-125 and 156: the git operation returns.
GitOperationReturned ==
    /\ sync.call.pc = "git"
    /\ \E ok \in BOOLEAN,
          target \in IF sync.copy.exists THEN 1..sync.copy.head ELSE {0} :
           LET result == GitOperationsResult(sync.call.op, sync.copy,
                                             sync.remote, ok, target)
           IN  sync' = [sync EXCEPT
                   !.copy = result.copy,
                   !.call.success = result.success,
                   !.call.pc = IF RecordsSync(sync.call.op, result.success)
                               THEN "commit" ELSE "returned"]
    /\ UNCHANGED <<engineVars, fileAccess, signatureCheck, issued,
                   encryptionKey, vault, configs, commandRun, tokenCheck, buildFiles>>

\* lines 95-99 and 127-131: getCurrentCommit returns; with a commit the
\* object's fields are set and save is awaited.
CurrentCommitRead ==
    /\ sync.call.pc = "commit"
    /\ \E ok \in BOOLEAN :
           LET currentCommit == getCurrentCommit(sync.copy, ok)
           IN  IF currentCommit # 0
               THEN sync' = [sync EXCEPT
                        !.repo = [lastSyncedCommit |-> currentCommit,
                                  lastSyncedAt |-> sync.now],
                        !.call.pc = "save"]
               ELSE sync' = [sync EXCEPT !.call.pc = "returned"]
    /\ UNCHANGED <<engineVars, fileAccess, signatureCheck, issued,
                   encryptionKey, vault, configs, commandRun, tokenCheck, buildFiles>>

\* lines 99 and 131, GitRepository.save (build-config.ts, lines 323-324):
\* the row takes the object's fields, or the write throws and the handler
\* returns false from its catch.
SyncSaved ==
    /\ sync.call.pc = "save"
    /\ \E ok \in BOOLEAN :
           sync' = [sync EXCEPT
               !.row = IF ok THEN sync.repo ELSE @,
               !.call.pc = "returned"]
    /\ UNCHANGED <<engineVars, fileAccess, signatureCheck, issued,
                   encryptionKey, vault, configs, commandRun, tokenCheck, buildFiles>>

SyncNext ==
    \/ RemotePushed
    \/ SyncClockTick
    \/ \E op \in {"clone", "pull", "checkout"} : GitHandlerCalled(op)
    \/ GitOperationReturned
    \/ CurrentCommitRead
    \/ SyncSaved

SyncSpec == AloneInit /\ [][SyncNext]_vars

----------------------------------------------------------------------------
(* BuildEngine.processBuild from its pre-build commands on, command by command *)

\* The strings preBuildCommands and postBuildCommands, as their lines: each a
\* command or a line of white space.
CommandTexts == UNION {[1 .. n -> {"c1", "c2", " "}] : n \in 0 .. MaxLines}

\* split("\n").filter(cmd => cmd.trim() !== ""), lines 280 and 310: a line
\* of white space trims to "".
RECURSIVE commandsOf(_)
commandsOf(text) ==
    IF text = <<>> THEN <<>>
    ELSE (IF text[1] # " " THEN <<text[1]>> ELSE <<>>)
             \o commandsOf(Tail(text))

\* A promisified exec that resolves whatever the exit status.
ExecRejectsNever(exit) == FALSE

\* util.promisify(exec), line 26: the promise is rejected when the command
\* exits non-zero.
ExecRejects(exit) == exit # 0

\* The list of the phase the run is in.
ListOf(run) == commandsOf(IF run.pc = "preBuild" THEN run.pre ELSE run.post)

\* lines 275-276: the sync returned and processBuild reaches the pre-build
\* commands of the build configuration.
CommandRunBegins ==
    /\ commandRun.pc = "idle"
    /\ \E pre \in CommandTexts, post \in CommandTexts,
          buildType \in {"compose-only", "docker-build"} :
           commandRun' = [commandRun EXCEPT !.pre = pre, !.post = post,
                                            !.buildType = buildType,
                                            !.pc = "preBuild"]
    /\ UNCHANGED <<engineVars, fileAccess, signatureCheck, issued,
                   encryptionKey, vault, configs, sync, tokenCheck, buildFiles>>

\* lines 282-285 and 312-315: the next command of the list is handed to
\* exec and awaited; a list without commands is skipped (lines 276, 306).
CommandStarted ==
    /\ commandRun.pc \in {"preBuild", "postBuild"}
    /\ commandRun.running = {}
    /\ IF commandRun.i > Len(ListOf(commandRun))
       THEN commandRun' = [commandRun EXCEPT !.pc = IF commandRun.pc = "preBuild"
                                                   THEN "build" ELSE "deploy",
                                             !.i = 1]
       ELSE commandRun' = [commandRun EXCEPT
                !.running = {<<commandRun.pc, commandRun.i>>}]
    /\ UNCHANGED <<engineVars, fileAccess, signatureCheck, issued,
                   encryptionKey, vault, configs, sync, tokenCheck, buildFiles>>

\* lines 285-299 and 315-329: the command exits; a rejected promise leaves
\* the loop through the catch, which throws out of processBuild.
CommandExited ==
    /\ commandRun.pc \in {"preBuild", "postBuild"}
    /\ commandRun.running # {}
    /\ \E exit \in {0, 1} :
           LET entry == [phase |-> commandRun.pc,
                         command |-> ListOf(commandRun)[commandRun.i],
                         exit |-> exit]
           IN  IF ExecRejects(exit)
               THEN commandRun' = [commandRun EXCEPT
                        !.running = {},
                        !.executed = Append(@, entry),
                        !.pc = "failed",
                        !.error = IF commandRun.pc = "preBuild"
                                  THEN "Pre-build command failed"
                                  ELSE "Post-build command failed"]
               ELSE commandRun' = [commandRun EXCEPT
                        !.running = {},
                        !.executed = Append(@, entry),
                        !.i = @ + 1]
    /\ UNCHANGED <<engineVars, fileAccess, signatureCheck, issued,
                   encryptionKey, vault, configs, sync, tokenCheck, buildFiles>>

\* line 303, buildApplication: returns or throws.
ApplicationBuilt ==
    /\ commandRun.pc = "build"
    /\ \E dockerfileFound \in BOOLEAN, dockerOk \in BOOLEAN :
           LET error == BuildOutcome(commandRun.buildType, dockerfileFound,
                                     dockerOk)
               entry == [phase |-> "build", command |-> commandRun.buildType,
                         exit |-> IF error = "" THEN 0 ELSE 1]
           IN  commandRun' = [commandRun EXCEPT
                   !.executed = Append(@, entry),
                   !.pc = IF error = "" THEN "postBuild" ELSE "failed",
                   !.error = error]
    /\ UNCHANGED <<engineVars, fileAccess, signatureCheck, issued,
                   encryptionKey, vault, configs, sync, tokenCheck, buildFiles>>

\* line 333, deployApplication: returns or throws.
ApplicationDeployed ==
    /\ commandRun.pc = "deploy"
    /\ \E composeFound \in BOOLEAN, stackOk \in BOOLEAN :
           LET error == DeployOutcome(composeFound, stackOk)
               entry == [phase |-> "deploy", command |-> "deploy",
                         exit |-> IF error = "" THEN 0 ELSE 1]
           IN  commandRun' = [commandRun EXCEPT
                   !.executed = Append(@, entry),
                   !.pc = IF error = "" THEN "completed" ELSE "failed",
                   !.error = error]
    /\ UNCHANGED <<engineVars, fileAccess, signatureCheck, issued,
                   encryptionKey, vault, configs, sync, tokenCheck, buildFiles>>

CommandNext ==
    \/ CommandRunBegins
    \/ CommandStarted
    \/ CommandExited
    \/ ApplicationBuilt
    \/ ApplicationDeployed

CommandSpec == AloneInit /\ [][CommandNext]_vars

----------------------------------------------------------------------------
(* The GitLab and generic routes alone: the token headers *)

\* The value of a token header; "" is the header that is absent, which ||
\* treats as it treats an empty one.
TokenValues == {""} \cup Secrets

\* A generic provider that reads X-Webhook-Secret before X-Webhook-Token.
GenericTokenSecretFirst(h) ==
    IF h.xWebhookSecret # "" THEN h.xWebhookSecret ELSE h.xWebhookToken

\* generic.ts, line 39:
\* headers["x-webhook-token"] || headers["x-webhook-secret"] || ""
GenericToken(h) ==
    IF h.xWebhookToken # "" THEN h.xWebhookToken ELSE h.xWebhookSecret

\* A request reaches parseWebhookPayload of its provider with the secret of
\* the repository (bitbucket.ts, line 308); the payload may hold the secret.
TokenWebhook ==
    /\ \E provider \in {"gitlab", "generic"}, secret \in Secrets,
          g \in TokenValues, t \in TokenValues, s \in TokenValues,
          after \in {"abc123", "s3cret"} :
           LET h == [xGitlabToken |-> g, xWebhookToken |-> t,
                     xWebhookSecret |-> s]
               headers == [event |-> IF provider = "gitlab" THEN "Push Hook"
                                     ELSE "",
                           token |-> IF provider = "gitlab" THEN h.xGitlabToken
                                     ELSE GenericToken(h),
                           sig |-> <<>>, uuids |-> FALSE]
               payload == [ref |-> RefHead("main"), after |-> after]
               metadata == getProviderHandler(provider, payload, headers,
                                              secret)
           IN  tokenCheck' =
                   [provider |-> provider, xGitlabToken |-> g,
                    xWebhookToken |-> t, xWebhookSecret |-> s,
                    secret |-> secret, after |-> after,
                    verified |-> metadata.verified]
    /\ UNCHANGED <<engineVars, fileAccess, signatureCheck, issued,
                   encryptionKey, vault, configs, sync, commandRun, buildFiles>>

TokenNext == TokenWebhook

TokenSpec == AloneInit /\ [][TokenNext]_vars

----------------------------------------------------------------------------
(* buildDocker and deployApplication alone: the files they name *)

\* buildConfig.dockerfilePath || "Dockerfile" and
\* buildConfig.composeFilePath || "docker-compose.yml": the empty string
\* gives the default name.
OrDefault(configured, name) == IF configured = <<>> THEN <<name>> ELSE configured

\* buildDocker, lines 416-458: fs.access of the joined path, then docker
\* build with -f dockerfilePath in the working copy.
buildDockerFiles(id, dockerfilePath, found, dockerOk) ==
    LET resolved == pathJoin(repoPath(id), OrDefault(dockerfilePath, "Dockerfile"))
        access == [op |-> "access", path |-> resolved]
        build == [op |-> "docker build -f", path |-> resolved]
    IN  [phase |-> "build", root |-> repoPath(id), resolved |-> resolved,
         ops |-> IF found THEN <<access, build>> ELSE <<access>>,
         error |-> BuildOutcome("docker-build", found, dockerOk)]

\* deployApplication, lines 476-517: the compose file is read from the
\* joined path and its content is saved as the stack's compose definition.
deployApplicationFiles(id, composePath, found, stackOk) ==
    LET resolved == pathJoin(repoPath(id),
                             OrDefault(composePath, "docker-compose.yml"))
        read == [op |-> "readFile", path |-> resolved]
        save == [op |-> "Stack.save", path |-> resolved]
    IN  [phase |-> "deploy", root |-> repoPath(id), resolved |-> resolved,
         ops |-> IF found THEN <<read, save>> ELSE <<read>>,
         error |-> DeployOutcome(found, stackOk)]

buildDocker ==
    /\ \E id \in DOMAIN git_repositories, dockerfilePath \in Paths,
          found \in BOOLEAN, dockerOk \in BOOLEAN :
           buildFiles' = buildDockerFiles(id, dockerfilePath, found, dockerOk)
    /\ UNCHANGED <<engineVars, fileAccess, signatureCheck, issued,
                   encryptionKey, vault, configs, sync, commandRun, tokenCheck>>

deployApplication ==
    /\ \E id \in DOMAIN git_repositories, composePath \in Paths,
          found \in BOOLEAN, stackOk \in BOOLEAN :
           buildFiles' = deployApplicationFiles(id, composePath, found, stackOk)
    /\ UNCHANGED <<engineVars, fileAccess, signatureCheck, issued,
                   encryptionKey, vault, configs, sync, commandRun, tokenCheck>>

BuildFilesNext == buildDocker \/ deployApplication

BuildFilesSpec == AloneInit /\ [][BuildFilesNext]_vars

----------------------------------------------------------------------------
(* WebhookHandler.processWebhook alone: requests that overlap *)

\* A request arrives while others may be between their count of the rows
\* and the return of their save.
ConcurrentWebhook(req) ==
    /\ Len(http) < MaxConcurrent
    /\ processWebhookCalled(req)

RaceNext ==
    \/ \E req \in Requests : ConcurrentWebhook(req)
    \/ \E i \in DOMAIN http : WebhookSaved(i)

RaceSpec == Init /\ [][RaceNext]_vars

----------------------------------------------------------------------------
(* Properties *)

Executing == {"saveInProgress", "processBuild", "saveCompleted",
              "saveSucceeded", "saveFailed", "createFailedDeployment"}

Finished == {"timer", "done"}

RunsOf(c) == {r \in DOMAIN runs : runs[r].call = c}

\* C1: at any time at most one build is between the start of processBuild
\* and its completion or failure, whatever the order in which webhook
\* messages, manual triggers and the startup reload enqueue.
AtMostOneBuildRuns ==
    Cardinality({r \in DOMAIN runs : runs[r].pc \in Executing}) <= 1

\* C1 witness: a request joined the queue while a build was executing and
\* waits there.
QueuedWhileBuildRuns ==
    /\ \E r \in DOMAIN runs : runs[r].pc \in Executing
    /\ Len(buildQueue) > 0

\* C2: builds begin execution in the order of their queueBuild calls.
BuildsStartInCallOrder ==
    \A i, j \in DOMAIN runs : i < j => runs[i].call < runs[j].call

Accepted(h) == h.pc = "done" /\ h.status = 200 /\ h.body.eventId # 0

\* C3: for every accepted webhook exactly one WebhookEvent row exists and at
\* most one Deployment row is ever created for it.
OneEventAndAtMostOneDeployment ==
    \A i \in DOMAIN http :
        Accepted(http[i]) =>
            /\ http[i].body.eventId \in DOMAIN webhook_events
            /\ Cardinality({d \in DOMAIN deployments :
                   deployments[d].eventId = http[i].body.eventId}) <= 1

\* C4: when a phase of a build throws, the worker catches it, the Deployment
\* row created for that build ends failed with the error text recorded, and
\* the request is stored as failed.
FailedBuildFailsItsDeployment ==
    \A r \in DOMAIN runs :
        runs[r].pc \in Finished /\ runs[r].error # "" =>
            /\ runs[r].ev.status = BUILD_FAILED
            /\ deployments[runs[r].deployment].status = DEPLOYMENT_FAILED
            /\ \E k \in DOMAIN deployments[runs[r].deployment].logs :
                   deployments[runs[r].deployment].logs[k] = runs[r].error

\* One queueBuild call and at most one request handler store the row of id.
SoleWriter(id) ==
    /\ Cardinality({c \in DOMAIN calls : calls[c].ev.id = id}) = 1
    /\ Cardinality({i \in DOMAIN http : http[i].ev.id = id})
       + Cardinality({m \in DOMAIN manual : manual[m].ev.id = id}) <= 1

Terminal(r) ==
    /\ runs[r].pc \in Finished
    /\ runs[r].ev.status \in {BUILD_COMPLETED, BUILD_FAILED}
    /\ deployments[runs[r].deployment].status
           \in {DEPLOYMENT_SUCCEEDED, DEPLOYMENT_FAILED}

\* C6: every build request that has joined the queue is eventually taken and
\* reaches completed or failed with its Deployment row succeeded or failed.
EveryQueuedBuildEnds ==
    \A c \in 1..MaxCalls :
        (c \in DOMAIN calls /\ calls[c].pc = "queued")
            ~> (\E r \in RunsOf(c) : Terminal(r))

\* The request handler added no event, no broadcast, no queueBuild call, no
\* queue entry and no Deployment.
NothingProduced ==
    UNCHANGED <<webhook_events, emitted, calls, buildQueue, deployments>>

Rejected(h, code) ==
    h.pc = "done" /\ h.status = code /\ h.ev = NoEvent /\ h.body.eventId = 0

\* The request reaches the provider adapter of its route.
Parsed(req) ==
    /\ RepoFound(req.repoId)
    /\ git_repositories[req.repoId].provider = req.route

Unverified(req) ==
    /\ Parsed(req)
    /\ git_repositories[req.repoId].webhookSecret # ""
    /\ ~ParseFor(req).verified

\* C7: a request for a repository with a webhook secret whose verification
\* the provider adapter reports as failed is answered 401, and the handler
\* stores no event and enqueues nothing.
UnverifiedWebhookRejected ==
    [][\A i \in DOMAIN http' \ DOMAIN http :
          Unverified(http'[i].req) =>
              Rejected(http'[i], 401) /\ NothingProduced]_vars

\* C7 witness: an unverified request for a repository with a secret has been
\* answered.
UnverifiedWebhookAnswered ==
    \E i \in DOMAIN http : Unverified(http[i].req) /\ http[i].pc = "done"

\* C8: a request for an unknown repository id is answered 404 and a request
\* on the route of another provider than the repository's is answered 400;
\* neither stores an event nor enqueues anything, and the answer does not
\* depend on the verification of the request.
UnknownOrMismatchedWebhookRejected ==
    [][\A i \in DOMAIN http' \ DOMAIN http :
          /\ ~RepoFound(http'[i].req.repoId) =>
                 Rejected(http'[i], 404) /\ NothingProduced
          /\ (/\ RepoFound(http'[i].req.repoId)
              /\ git_repositories[http'[i].req.repoId].provider
                     # http'[i].req.route) =>
                 Rejected(http'[i], 400) /\ NothingProduced]_vars

\* C8 witness: a request on the wrong provider's route that would also fail
\* the verification of the repository's secret has been answered.
MismatchedUnverifiedWebhookAnswered ==
    \E i \in DOMAIN http :
        /\ RepoFound(http[i].req.repoId)
        /\ git_repositories[http[i].req.repoId].provider # http[i].req.route
        /\ git_repositories[http[i].req.repoId].webhookSecret # ""
        /\ ~ParseFor(http[i].req).verified
        /\ http[i].pc = "done"

Verified(req) == Parsed(req) /\ ~Unverified(req)

NamesOtherBranch(req) ==
    /\ Verified(req)
    /\ ParseFor(req).branch # ""
    /\ ParseFor(req).branch # git_repositories[req.repoId].branch

NamesOtherTag(req) ==
    /\ Verified(req)
    /\ ParseFor(req).tag # ""
    /\ ParseFor(req).tag # git_repositories[req.repoId].branch

Queued(id) ==
    \E c \in DOMAIN calls : calls[c].ev.id = id /\ calls[c].pc # "saving"

\* C10: a webhook that passes every check is answered 200 with the build id
\* of its event, and its build request eventually reaches the build queue.
AcceptedWebhookIsQueued ==
    \A i \in 1..MaxRequests :
        (i \in DOMAIN http /\ processWebhookChecks(http[i].req) = 0)
            ~> (/\ i \in DOMAIN http
                /\ Accepted(http[i])
                /\ http[i].body.buildId = http[i].ev.buildId
                /\ Queued(http[i].body.eventId))

Succeeded(r) == runs[r].pc \in Finished /\ runs[r].phases = Phases

Failed(r) == runs[r].pc \in Finished /\ runs[r].error # ""

\* The build whose compose file the stack of repository repoId holds: the
\* last one that wrote the stack's files, 0 when none did.
Applied(repoId) ==
    LET A == {r \in DOMAIN runs :
                 runs[r].applied /\ runs[r].ev.repositoryId = repoId}
    IN  IF A = {} THEN 0 ELSE CHOOSE r \in A : \A q \in A : q <= r

\* C12: when a build of commit Y fails for a repository with rollbackOnFailure
\* set, after a build of another commit X succeeded for it, the stack holds
\* what the build of X deployed and the Deployment of the failed build is
\* rolled_back.
FailedBuildRollsBack ==
    \A r1, r2 \in DOMAIN runs :
        (/\ r1 < r2
         /\ runs[r1].ev.repositoryId = runs[r2].ev.repositoryId
         /\ runs[r1].ev.commit # runs[r2].ev.commit
         /\ build_configs[runs[r2].ev.repositoryId].rollbackOnFailure
         /\ Succeeded(r1)
         /\ Failed(r2)) =>
            /\ Applied(runs[r2].ev.repositoryId) = r1
            /\ deployments[runs[r2].deployment].status = DEPLOYMENT_ROLLED_BACK

\* C13: a webhook delivered again with the commit of a Deployment that is
\* already successful for its repository does not make the stack runtime
\* run again: no build of its event writes the stack's files and deploys.
RedeliveryDeploysNothing ==
    \A i \in DOMAIN http :
        http[i].redelivery =>
            ~\E r \in DOMAIN runs :
                /\ Accepted(http[i])
                /\ runs[r].ev.id = http[i].body.eventId
                /\ runs[r].applied

HungBuildIsFailed ==
    \A c \in 1..MaxCalls :
        (\E r \in RunsOf(c) : runs[r].pc = "hung")
            ~> (\E r \in RunsOf(c) : Failed(r))

\* C16: a build whose working copy exists and whose fast-forward-only pull
\* fails is a sync failure: the build fails, a Deployment of its event is
\* stored as failed, and no later phase runs.
FailedPullFailsBuild ==
    \A r \in DOMAIN runs :
        runs[r].pc \in Finished /\ runs[r].pullFailed =>
            /\ Failed(r)
            /\ runs[r].phases = <<>>
            /\ ~runs[r].applied
            /\ \E d \in DOMAIN deployments :
                  /\ deployments[d].eventId = runs[r].ev.id
                  /\ deployments[d].status = DEPLOYMENT_FAILED

\* A location is inside a root when the root's segments begin its segments.
Within(path, root) ==
    Len(root) <= Len(path) /\ SubSeq(path, 1, Len(root)) = root

\* C17: getFileContent and listFiles touch the filesystem only inside the
\* repository's root; a path that resolves outside the root gets the empty
\* result and no read or directory listing.
FileAccessStaysInRoot ==
    /\ \A k \in DOMAIN fileAccess.ops :
           Within(fileAccess.ops[k].path, fileAccess.root)
    /\ ~Within(fileAccess.requested, fileAccess.root) =>
           /\ fileAccess.result = "empty"
           /\ \A k \in DOMAIN fileAccess.ops : fileAccess.ops[k].op = "stat"

\* C18: GitHub verification with a secret succeeds only if the signature
\* header is the HMAC-SHA256 of the received raw body under the secret; a
\* body other than the signed one, a missing signature and a signature in
\* another format are rejected.
SignatureCoversRawBody ==
    signatureCheck.verified =>
        signatureCheck.signature =
            Hmac(signatureCheck.raw, signatureCheck.secret)

\* The builds of the event that webhook request i stored.
BuildsOf(i) == {r \in DOMAIN runs : runs[r].ev.id = http[i].ev.id}

\* C19: a generic push whose ref names the tracked branch and whose after
\* field is a commit, for a compose-only configuration, with every external
\* operation succeeding, yields exactly one Deployment; its commitSha is the
\* payload's after value, its status is successful, and the stack runtime was
\* invoked with the compose file of the build.
GenericPushDeploysItsCommit ==
    \A i \in DOMAIN http :
        \A r \in BuildsOf(i) :
            (/\ http[i].req.route = "generic"
             /\ http[i].req.repoId \in DOMAIN git_repositories
             /\ http[i].req.payload.ref =
                    RefHead(git_repositories[http[i].req.repoId].branch)
             /\ http[i].req.payload.after # ""
             /\ build_configs[runs[r].ev.repositoryId].buildType = "compose-only"
             /\ Succeeded(r)) =>
                LET D == {d \in DOMAIN deployments :
                             deployments[d].eventId = http[i].ev.id}
                IN  /\ Cardinality(D) = 1
                    /\ \A d \in D :
                          /\ deployments[d].commitSha = http[i].req.payload.after
                          /\ deployments[d].status = DEPLOYMENT_SUCCEEDED
                    /\ runs[r].applied

\* C20: the stack's files are written and the stack runtime invoked only in
\* a build whose sync, pre-build, build and post-build all returned, and with
\* the compose file of the working copy that the sync brought up to date; a
\* build that fails in an earlier phase leaves the stack as it was.
DeployUsesSyncedCopy ==
    \A r \in DOMAIN runs :
        /\ runs[r].applied =>
              /\ Len(runs[r].phases) >= 4
              /\ SubSeq(runs[r].phases, 1, 4) = SubSeq(Phases, 1, 4)
              /\ runs[r].synced # <<>>
              /\ Within(runs[r].composeFile, runs[r].synced)
        /\ (runs[r].pc \in Finished /\ Len(runs[r].phases) < 4) =>
              ~runs[r].applied /\ runs[r].composeFile = <<>>

\* C21: every build request, of a webhook or manual, carries a build id that
\* no other build request carries, also when two are created in the same
\* millisecond.
BuildIdsAreUnique ==
    \A i, j \in DOMAIN issued.ids :
        i # j => issued.ids[i] # issued.ids[j]

\* C22: in the stored GitRepository row the credentials blob is null whenever
\* authType is none, and a blob that is not null is the sealed form of the
\* credentials, never their text.
NoCredentialsStoredForAuthNone ==
    /\ vault.row.auth_type = "none" => vault.row.credentials_json = <<>>
    /\ vault.row.credentials_json # <<>> =>
           /\ vault.row.credentials_json \in vault.sealed
           /\ vault.row.credentials_json[3] \in
                  {credentialsString(c) : c \in Credentials}

\* C23: once initialized, the encryption key keeps its value for the rest of
\* the process, so every text sealed earlier still decrypts to its original.
EncryptionKeyNeverChanges ==
    vault.firstKey # <<>> =>
        /\ encryptionKey = vault.firstKey
        /\ \A blob \in vault.sealed :
               decryptText(blob, encryptionKey) = blob[3]

\* The rows that saveBuildConfig calls for the stack wrote.
ConfigsOf(stackName) ==
    {configs.saves[c].id : c \in {i \in DOMAIN configs.saves :
        /\ configs.saves[i].stackName = stackName
        /\ configs.saves[i].pc = "returned"}}

\* C24: after any interleaving of saveBuildConfig calls at most one
\* BuildConfig row exists per stack, and a save for a stack that already
\* has a configuration updates that row.
OneBuildConfigPerStack ==
    /\ \A stackName \in StackNames : Cardinality(ConfigsOf(stackName)) <= 1
    /\ \A k, l \in DOMAIN configs.rows :
           k # l => configs.rows[k].stack_id # configs.rows[l].stack_id
    /\ \A c \in DOMAIN configs.saves :
           (configs.saves[c].hadConfig
            /\ configs.saves[c].pc \in {"returned", "thrown"}
            /\ configs.saves[c].buildType # "") =>
               /\ configs.saves[c].pc = "returned"
               /\ configs.saves[c].id \in DOMAIN configs.rows

\* The calls whose builds have started, in start order, followed by the
\* calls waiting in the queue.
QueueOrder == [r \in DOMAIN runs |-> runs[r].call] \o buildQueue

\* C25: the worker takes the request at the head of the queue: the builds
\* started followed by the requests waiting only ever grow at the end, by a
\* request that joins the queue, and a build starts only when no build is
\* between its start and its completion or failure.
BuildsStartInQueueOrder ==
    [][/\ \/ QueueOrder' = QueueOrder
          \/ \E c \in DOMAIN calls :
                 calls[c].pc = "saving" /\ QueueOrder' = Append(QueueOrder, c)
       /\ Len(runs') > Len(runs) =>
              \A r \in DOMAIN runs : runs[r].pc \notin Executing]_vars

\* C25 witness: a request waited in the queue while the first build ran and
\* its build started after that build had ended.
WaitingRequestStartedAfterBuild ==
    /\ Len(runs) >= 2
    /\ runs[1].pc = "done"
    /\ runs[2].pc \in Executing
    /\ \E k \in DOMAIN calls[runs[2].call].notes :
           calls[runs[2].call].notes[k] = "buildQueued"

\* The place of a status on requested, queued, running, completed | failed.
StatusRank(status) ==
    CASE status = BUILD_REQUESTED -> 1
      [] status = BUILD_QUEUED -> 2
      [] status = BUILD_IN_PROGRESS -> 3
      [] status \in {BUILD_COMPLETED, BUILD_FAILED} -> 4

DeploymentTerminal ==
    {DEPLOYMENT_SUCCEEDED, DEPLOYMENT_FAILED, DEPLOYMENT_ROLLED_BACK}

IsPrefix(s, t) == Len(s) <= Len(t) /\ SubSeq(t, 1, Len(s)) = s

\* The log the table holds for a deployment: its two log columns.
PersistedLog(deployment) ==
    StoredLogs(deployment).build_logs \o StoredLogs(deployment).deployment_logs

\* C28: the stored log of a Deployment is append-only, and every append is
\* stored with the record: each stored value has the value stored before as
\* a prefix and holds everything that was appended to the log.
LogIsStoredAppendOnly ==
    [][\A d \in DOMAIN deployments' :
           /\ d \in DOMAIN deployments =>
                  IsPrefix(PersistedLog(deployments[d]),
                           PersistedLog(deployments'[d]))
           /\ PersistedLog(deployments'[d]) = deployments'[d].logs]_vars

\* The notifications of a build are in order: queued, started, then at most
\* one of completed and failed.
NotifiedInOrder(notes) ==
    \/ IsPrefix(notes, <<"buildQueued", "buildStarted", "buildCompleted">>)
    \/ IsPrefix(notes, <<"buildQueued", "buildStarted", "buildFailed">>)

\* C29: for each build the observers are told queued, then started, then
\* exactly one of completed or failed; every notification carries the
\* repository id and the build id, and the started, completed and failed
\* notifications carry the Deployment id.
NotificationsInOrderWithIds ==
    \A c \in DOMAIN calls :
        /\ NotifiedInOrder(calls[c].notes)
        /\ \A k \in DOMAIN calls[c].notes :
               /\ {"repositoryId", "buildId"} \subseteq Payload(calls[c].notes[k])
               /\ calls[c].notes[k] # "buildQueued" =>
                      "deploymentId" \in Payload(calls[c].notes[k])

\* The order part of C29 alone.
NotificationsInOrder ==
    \A c \in DOMAIN calls : NotifiedInOrder(calls[c].notes)

\* C30: a repository's lastSyncedCommit and lastSyncedAt are changed only by
\* a clone or pull that succeeded, and are then set to the working copy's
\* current commit; a failed clone, a failed pull or a checkout leaves both
\* unchanged, on the object and in its row.
LastSyncedChangedOnlyBySync ==
    LET changed == sync.repo # sync.before.repo \/ sync.row # sync.before.row
    IN  /\ changed =>
               /\ sync.call.op \in {"clone", "pull"}
               /\ sync.call.success
               /\ sync.repo.lastSyncedCommit = sync.copy.head
               /\ sync.row # sync.before.row => sync.row = sync.repo
        /\ (sync.call.op = "checkout" \/ ~sync.call.success) => ~changed

\* C30 witness: a pull brought a newer commit into the working copy and its
\* handler returned with the row moved from the older commit to that one.
PullRecordedNewerCommit ==
    /\ sync.call.op = "pull"
    /\ sync.call.pc = "returned"
    /\ sync.call.success
    /\ sync.before.row.lastSyncedCommit \notin {0, sync.copy.head}
    /\ sync.row.lastSyncedCommit = sync.copy.head
    /\ sync.row.lastSyncedAt > sync.before.row.lastSyncedAt

\* The commands of a phase in the order they were executed.
RECURSIVE ExecutedOf(_, _)
ExecutedOf(executed, phase) ==
    IF executed = <<>> THEN <<>>
    ELSE (IF executed[1].phase = phase THEN <<executed[1].command>> ELSE <<>>)
             \o ExecutedOf(Tail(executed), phase)

\* The lines of a text that are not white space, in the order of the text.
NonBlankLines(text) ==
    LET kept == {k \in DOMAIN text : text[k] # " "}
        nth(j) == CHOOSE k \in kept :
                      Cardinality({m \in kept : m < k}) = j - 1
    IN  [j \in 1 .. Cardinality(kept) |-> text[nth(j)]]

PhaseRank(phase) ==
    CASE phase = "preBuild" -> 1
      [] phase = "build" -> 2
      [] phase = "postBuild" -> 3
      [] phase = "deploy" -> 4

PresentedToken(check) ==
    CASE check.provider = "gitlab" -> check.xGitlabToken
      [] check.provider = "generic" /\ check.xWebhookToken # "" ->
             check.xWebhookToken
      [] OTHER -> check.xWebhookSecret

\* C32: for the GitLab and generic providers with a secret configured, the
\* normalized event is verified exactly when the token header of the request
\* equals the configured secret; a request with a missing or different token
\* is not verified, whatever its payload contains.
TokenVerifiedIffEqualsSecret ==
    (tokenCheck.provider # "" /\ tokenCheck.secret # "") =>
        /\ tokenCheck.verified <=> PresentedToken(tokenCheck) = tokenCheck.secret
        /\ PresentedToken(tokenCheck) = "" => ~tokenCheck.verified

\* C32 witness: a generic request with the secret in X-Webhook-Secret only
\* is verified.
SecretHeaderAloneVerifies ==
    /\ tokenCheck.provider = "generic"
    /\ tokenCheck.xWebhookToken = ""
    /\ tokenCheck.xGitlabToken = ""
    /\ tokenCheck.xWebhookSecret = tokenCheck.secret
    /\ tokenCheck.secret # ""
    /\ tokenCheck.verified

\* C33: a build whose configured Dockerfile path or compose file path
\* resolves outside the synced working copy is rejected: the build fails
\* and no file outside the working copy is read, passed to the image build,
\* or copied into the stack.
BuildFilesStayInWorkingCopy ==
    /\ \A k \in DOMAIN buildFiles.ops :
           buildFiles.ops[k].op # "access" =>
               Within(buildFiles.ops[k].path, buildFiles.root)
    /\ (buildFiles.phase # "none" /\ ~Within(buildFiles.resolved, buildFiles.root)) =>
           buildFiles.error # ""

AcceptedRequests ==
    {i \in DOMAIN http :
        http[i].pc = "saving" \/ (http[i].pc = "done" /\ http[i].body.eventId # 0)}

\* C35: two webhooks accepted concurrently are stored as two distinct
\* WebhookEvent records with different ids: the id assigned from the record
\* count is never the id of an existing or concurrently created event, so
\* saving one event never overwrites another.
ConcurrentEventsGetDistinctIds ==
    /\ \A i, j \in AcceptedRequests : i # j => http[i].ev.id # http[j].ev.id
    /\ \A i \in AcceptedRequests :
           http[i].pc = "done" =>
               /\ http[i].ev.id \in DOMAIN webhook_events
               /\ webhook_events[http[i].ev.id].buildId = http[i].ev.buildId
               /\ webhook_events[http[i].ev.id].commit = http[i].ev.commit

\* C36: a failure while the worker is recording a build failure does not
\* stop the worker: a request that is in the queue, or joins it afterwards,
\* is still taken.
WorkerSurvivesRecordingFailure ==
    \A c \in 1..MaxCalls :
        (/\ c \in DOMAIN calls /\ calls[c].pc = "queued"
         /\ \E r \in DOMAIN runs : runs[r].pc = "recordingThrew")
            ~> (RunsOf(c) # {})

\* The rows of webhook_events that a manual trigger created.
ManualEvents ==
    {id \in DOMAIN webhook_events : webhook_events[id].eventType = "manual"}

\* The stack of a trigger has a Git repository.
HasRepository(stackName) ==
    \E i \in DOMAIN git_repositories : git_repositories[i].stackId = stackName

BranchlessRequest(req) ==
    /\ Verified(req)
    /\ CASE req.route = "gitlab" ->
                ~(req.headers.event = "Push Hook" /\ req.payload.ref.kind = "heads")
         [] req.route = "generic" -> req.payload.ref.kind \notin {"heads", "other"}
         [] req.route = "github" ->
                ~(req.headers.event = "push" /\ req.payload.ref.kind = "heads")
         [] OTHER ->
                ~(req.headers.event = "repo:push" /\ req.payload.ref.kind = "heads")

FailedDeployKeepsStackFiles ==
    \A r \in DOMAIN runs :
        (runs[r].error = "deploy failed" /\ runs[r].pc \in Finished) =>
            Applied(runs[r].ev.repositoryId) # r

\* C40: whenever control is back at the event loop, if isProcessing is false
\* then the queue is empty and no build is running; equivalently, a
\* non-empty queue always has a running build or a scheduled processQueue
\* call that will take its head.
QueueAlwaysHasWorker ==
    /\ ~isProcessing =>
           /\ buildQueue = <<>>
           /\ \A r \in DOMAIN runs : runs[r].pc \notin Executing
    /\ buildQueue # <<>> =>
           \E r \in DOMAIN runs : runs[r].pc \in Executing \cup {"timer"}

====
